---- MODULE Spec2Model ----
(***************************************************************************)
(* State-machine model of the processing orchestrator (ProcessingHelper)  *)
(* and of the global-shortcut registry (ShortcutsHelper).                  *)
(*                                                                         *)
(* Every `await` of the source is a suspension point: the part of a        *)
(* method before its first await is one action, and the continuation that *)
(* runs when the awaited call settles (resolve or reject) is another.      *)
(***************************************************************************)
EXTENDS Integers, Sequences, FiniteSets, TLC

VARIABLES
    view,                                   \* appState view
    screenshotQueue,                        \* primary queue, oldest first
    extraScreenshotQueue,                   \* secondary (debug) queue
    problemInfo,                            \* committed ProblemInfo or Null
    hasDebugged,                            \* appState HasDebugged flag
    currentProcessingAbortController,       \* primary slot: 0 or a token
    currentExtraProcessingAbortController,  \* secondary slot: 0 or a token
    aborts,                                 \* token -> number of abort() calls
    clipboard,                              \* system clipboard content
    calls,                                  \* the async invocations started so far
    last,                                   \* the most recent operation and what it sent
    registeredShortcuts,                    \* accelerator -> "unset" | TRUE | FALSE
    bound,                                  \* OS table: accelerator -> callbacks bound by this app
    heldElsewhere,                          \* accelerators claimed by other registrants
    lastReg,                                \* the most recent registry call and its result
    started,                                \* whether registerGlobalShortcuts has run
    promises,                               \* pending promises returned by async callbacks
    timers,                                 \* pending setTimeout callbacks
    hostErrors,                             \* errors that reached the OS dispatch layer
    lastKey,                                \* the most recent dispatch step
    quit                                    \* whether the will-quit listener has run

procVars == <<view, screenshotQueue, extraScreenshotQueue, problemInfo, hasDebugged,
              currentProcessingAbortController, currentExtraProcessingAbortController,
              aborts, clipboard, calls, last>>
regVars == <<registeredShortcuts, bound, heldElsewhere, lastReg>>
keyVars == <<started, promises, timers, hostErrors, lastKey, quit>>
vars == <<procVars, regVars, keyVars>>

----------------------------------------------------------------------------
(* Bounds *)

MaxCalls == 2        \* async invocations started in one run
MaxQueue == 2        \* artifacts in the primary queue
MaxExtraQueue == 1   \* artifacts in the secondary queue
MaxAccels == 3       \* accelerators the registry is called with
MaxFallbacks == 2    \* length of a fallback list
MaxHeld == 4         \* accelerators other registrants hold when the application starts
MaxPending == 2      \* promises of async callbacks pending at once
MaxTimers == 1       \* setTimeout callbacks pending at once

----------------------------------------------------------------------------
(* Values *)

Views == {"queue", "solutions", "debug"}

\* An artifact path, split at its suffix so that endsWith can be computed.
Path(stem, suffix) == [stem |-> stem, suffix |-> suffix]
endsWith(path, suffix) == path.suffix = suffix

Artifacts == {Path("shot1", ".png"), Path("voice", ".mp3"), Path("memo", ".wav")}
ExtraArtifacts == {Path("extra1", ".png")}

Texts == {"2+2=4", "B"}
Messages == {"timeout"}

Null == [null |-> TRUE]
NoSlot == 0

EmptyObject == [k \in {} |-> k]
EmptyArray == <<>>

Ev(name, payload) == [name |-> name, payload |-> payload]
NoPayload == [none |-> TRUE]
ErrMsg(m) == [message |-> m]

\* ProcessingHelper.ts:62
AudioProblemInfo(t) ==
    [problem_statement |-> t, input_format |-> EmptyObject, output_format |-> EmptyObject,
     constraints |-> EmptyArray, test_cases |-> EmptyArray]

\* ProcessingHelper.ts:77-85
ImageProblemInfo(t) ==
    [problem_statement |-> t,
     input_format |-> [description |-> "Generated from screenshot", parameters |-> EmptyArray],
     output_format |-> [description |-> "Generated from screenshot", type |-> "string",
                        subtype |-> "text"],
     complexity |-> [time |-> "N/A", space |-> "N/A"],
     test_cases |-> EmptyArray,
     validation_type |-> "manual",
     difficulty |-> "custom"]

\* ProcessingHelper.ts:189-197
McqProblemInfo(t) ==
    [problem_statement |-> t,
     input_format |-> [description |-> "MCQ Mode", parameters |-> EmptyArray],
     output_format |-> [description |-> "MCQ Answer", type |-> "string", subtype |-> "text"],
     complexity |-> [time |-> "N/A", space |-> "N/A"],
     test_cases |-> EmptyArray,
     validation_type |-> "manual",
     difficulty |-> "easy"]

\* What an analysis call of the language-model client resolves to.
LlmResult(t) == [text |-> t]

----------------------------------------------------------------------------
(* Bookkeeping of invocations *)

\* One started async invocation; its token is its index in calls.  The other
\* fields are history kept while it is in flight: the events it has sent, the
\* ProblemInfo committed when it started, and whether a Reset Queues ran since.
NewCall(kind, pc, evs) ==
    [kind |-> kind, pc |-> pc, events |-> evs, infoAtStart |-> problemInfo,
     preReset |-> FALSE]

\* An invocation that has returned.
Returned(kind) ==
    [kind |-> kind, pc |-> "done", events |-> <<>>, infoAtStart |-> Null,
     preReset |-> FALSE]

CanStart == Len(calls) < MaxCalls
NewId == Len(calls) + 1

Op(op, id, sent) == [op |-> op, id |-> id, sent |-> sent]

\* What a pending call settled with, and the settling step's record.
Resolved(v) == [ok |-> TRUE, text |-> v]
Rejected(m) == [ok |-> FALSE, message |-> m]
Settled(i, outcome, sent) == [op |-> "settle", id |-> i, sent |-> sent, outcome |-> outcome]

\* The continuation of invocation i: it has sent evs and is now at pc.
Continue(i, pc, evs) ==
    calls' = [calls EXCEPT ![i] = IF pc = "done"
                                  THEN Returned(calls[i].kind)
                                  ELSE [@ EXCEPT !.pc = pc, !.events = @ \o evs]]

----------------------------------------------------------------------------
(* Initial state *)

InitProc ==
    /\ view = "queue"
    /\ screenshotQueue = <<>>
    /\ extraScreenshotQueue = <<>>
    /\ problemInfo = Null
    /\ hasDebugged = FALSE
    /\ currentProcessingAbortController = NoSlot
    /\ currentExtraProcessingAbortController = NoSlot
    /\ aborts = [i \in 1..MaxCalls |-> 0]
    /\ clipboard = <<>>
    /\ calls = <<>>
    /\ last = Op("init", 0, <<>>)

----------------------------------------------------------------------------
(* processScreenshots: the synchronous part, up to the first await *)

lastPath == screenshotQueue[Len(screenshotQueue)]

\* ProcessingHelper.ts:42  no window: return
psNoWindow ==
    /\ last' = Op("processScreenshots", 0, <<>>)
    /\ UNCHANGED <<view, screenshotQueue, extraScreenshotQueue, problemInfo, hasDebugged,
                   currentProcessingAbortController, currentExtraProcessingAbortController,
                   aborts, clipboard, calls>>

\* Mutant of psQueueEmpty: the view is switched before the queue is looked at.
psQueueEmptySwitchesView ==
    /\ view = "queue"
    /\ Len(screenshotQueue) = 0
    /\ view' = "solutions"
    /\ last' = Op("processScreenshots", 0, <<Ev("NO_SCREENSHOTS", NoPayload)>>)
    /\ UNCHANGED <<screenshotQueue, extraScreenshotQueue, problemInfo, hasDebugged,
                   currentProcessingAbortController, currentExtraProcessingAbortController,
                   aborts, clipboard, calls>>

\* ProcessingHelper.ts:46-51  queue view, empty primary queue
psQueueEmpty ==
    /\ view = "queue"
    /\ Len(screenshotQueue) = 0
    /\ last' = Op("processScreenshots", 0, <<Ev("NO_SCREENSHOTS", NoPayload)>>)
    /\ UNCHANGED <<view, screenshotQueue, extraScreenshotQueue, problemInfo, hasDebugged,
                   currentProcessingAbortController, currentExtraProcessingAbortController,
                   aborts, clipboard, calls>>

\* Mutant of psAudioStart: the suffix of the last artifact is not looked at.
psAudioStartAnySuffix ==
    /\ view = "queue"
    /\ Len(screenshotQueue) # 0
    /\ CanStart
    /\ view' = "solutions"
    /\ calls' = Append(calls, NewCall("audio", "analyzeAudioFile",
                                      <<Ev("INITIAL_START", NoPayload)>>))
    /\ last' = Op("processScreenshots", NewId, <<Ev("INITIAL_START", NoPayload)>>)
    /\ UNCHANGED <<screenshotQueue, extraScreenshotQueue, problemInfo, hasDebugged,
                   currentProcessingAbortController, currentExtraProcessingAbortController,
                   aborts, clipboard>>

\* ProcessingHelper.ts:53-60  last artifact is audio: no slot is opened
psAudioStart ==
    /\ view = "queue"
    /\ Len(screenshotQueue) # 0
    /\ endsWith(lastPath, ".mp3") \/ endsWith(lastPath, ".wav")
    /\ CanStart
    /\ view' = "solutions"
    /\ calls' = Append(calls, NewCall("audio", "analyzeAudioFile",
                                      <<Ev("INITIAL_START", NoPayload)>>))
    /\ last' = Op("processScreenshots", NewId, <<Ev("INITIAL_START", NoPayload)>>)
    /\ UNCHANGED <<screenshotQueue, extraScreenshotQueue, problemInfo, hasDebugged,
                   currentProcessingAbortController, currentExtraProcessingAbortController,
                   aborts, clipboard>>

\* Mutant of psImageStart: the view is not looked at.
psImageStartAnyView ==
    /\ Len(screenshotQueue) # 0
    /\ ~(endsWith(lastPath, ".mp3") \/ endsWith(lastPath, ".wav"))
    /\ CanStart
    /\ view' = "solutions"
    /\ currentProcessingAbortController' = NewId
    /\ calls' = Append(calls, NewCall("image", "analyzeImageFile",
                                      <<Ev("INITIAL_START", NoPayload)>>))
    /\ last' = Op("processScreenshots", NewId, <<Ev("INITIAL_START", NoPayload)>>)
    /\ UNCHANGED <<screenshotQueue, extraScreenshotQueue, problemInfo, hasDebugged,
                   currentExtraProcessingAbortController, aborts, clipboard>>

\* ProcessingHelper.ts:72-76  any other last artifact: the primary slot is opened
psImageStart ==
    /\ view = "queue"
    /\ Len(screenshotQueue) # 0
    /\ ~(endsWith(lastPath, ".mp3") \/ endsWith(lastPath, ".wav"))
    /\ CanStart
    /\ view' = "solutions"
    /\ currentProcessingAbortController' = NewId
    /\ calls' = Append(calls, NewCall("image", "analyzeImageFile",
                                      <<Ev("INITIAL_START", NoPayload)>>))
    /\ last' = Op("processScreenshots", NewId, <<Ev("INITIAL_START", NoPayload)>>)
    /\ UNCHANGED <<screenshotQueue, extraScreenshotQueue, problemInfo, hasDebugged,
                   currentExtraProcessingAbortController, aborts, clipboard>>

\* ProcessingHelper.ts:95-102  any view but queue, empty secondary queue
psDebugEmpty ==
    /\ view # "queue"
    /\ Len(extraScreenshotQueue) = 0
    /\ last' = Op("processScreenshots", 0, <<Ev("NO_SCREENSHOTS", NoPayload)>>)
    /\ UNCHANGED <<view, screenshotQueue, extraScreenshotQueue, problemInfo, hasDebugged,
                   currentProcessingAbortController, currentExtraProcessingAbortController,
                   aborts, clipboard, calls>>

\* Mutant of psDebugNoProblemInfo: the ProblemInfo is not checked and the
\* workflow goes on to generateSolution.
psDebugNoCheck ==
    /\ view # "queue"
    /\ Len(extraScreenshotQueue) # 0
    /\ problemInfo = Null
    /\ CanStart
    /\ currentExtraProcessingAbortController' = NewId
    /\ calls' = Append(calls, NewCall("debug", "generateSolution",
                                      <<Ev("DEBUG_START", NoPayload)>>))
    /\ last' = Op("processScreenshots", NewId, <<Ev("DEBUG_START", NoPayload)>>)
    /\ UNCHANGED <<view, screenshotQueue, extraScreenshotQueue, problemInfo, hasDebugged,
                   currentProcessingAbortController, aborts, clipboard>>

\* ProcessingHelper.ts:104-112,131-139  no committed ProblemInfo: the throw is
\* caught and the finally runs before any await, so the whole workflow is one step
psDebugNoProblemInfo ==
    /\ view # "queue"
    /\ Len(extraScreenshotQueue) # 0
    /\ problemInfo = Null
    /\ CanStart
    /\ currentExtraProcessingAbortController' = NoSlot
    /\ calls' = Append(calls, Returned("debug"))
    /\ last' = Op("processScreenshots", NewId,
                   <<Ev("DEBUG_START", NoPayload),
                     Ev("DEBUG_ERROR", ErrMsg("No problem info available"))>>)
    /\ UNCHANGED <<view, screenshotQueue, extraScreenshotQueue, problemInfo, hasDebugged,
                   currentProcessingAbortController, aborts, clipboard>>

\* ProcessingHelper.ts:104-115  ProblemInfo present: suspend on generateSolution
psDebugStart ==
    /\ view # "queue"
    /\ Len(extraScreenshotQueue) # 0
    /\ problemInfo # Null
    /\ CanStart
    /\ currentExtraProcessingAbortController' = NewId
    /\ calls' = Append(calls, NewCall("debug", "generateSolution",
                                      <<Ev("DEBUG_START", NoPayload)>>))
    /\ last' = Op("processScreenshots", NewId, <<Ev("DEBUG_START", NoPayload)>>)
    /\ UNCHANGED <<view, screenshotQueue, extraScreenshotQueue, problemInfo, hasDebugged,
                   currentProcessingAbortController, aborts, clipboard>>

\* ProcessingHelper.ts:40-141; w: whether getMainWindow() returns a window
processScreenshots ==
    \E w \in BOOLEAN :
        \/ ~w /\ psNoWindow
        \/ w /\ psQueueEmpty
        \/ w /\ psAudioStart
        \/ w /\ psImageStart
        \/ w /\ psDebugEmpty
        \/ w /\ psDebugNoProblemInfo
        \/ w /\ psDebugStart

----------------------------------------------------------------------------
(* processScreenshots: the continuations *)

Pending(pc) == {i \in 1..Len(calls) : calls[i].pc = pc}

\* ProcessingHelper.ts:61-63
audioResolve(i, t) ==
    /\ problemInfo' = AudioProblemInfo(t)
    /\ Continue(i, "done", <<Ev("PROBLEM_EXTRACTED", LlmResult(t))>>)
    /\ last' = Settled(i, Resolved(t), <<Ev("PROBLEM_EXTRACTED", LlmResult(t))>>)
    /\ UNCHANGED <<view, screenshotQueue, extraScreenshotQueue, hasDebugged,
                   currentProcessingAbortController, currentExtraProcessingAbortController,
                   aborts, clipboard>>

\* Mutant of audioReject: the failure is logged and no event is sent.
audioRejectSilent(i, m) ==
    /\ Continue(i, "done", <<>>)
    /\ last' = Settled(i, Rejected(m), <<>>)
    /\ UNCHANGED <<view, screenshotQueue, extraScreenshotQueue, problemInfo, hasDebugged,
                   currentProcessingAbortController, currentExtraProcessingAbortController,
                   aborts, clipboard>>

\* ProcessingHelper.ts:64-67
audioReject(i, m) ==
    /\ Continue(i, "done", <<Ev("INITIAL_SOLUTION_ERROR", ErrMsg(m))>>)
    /\ last' = Settled(i, Rejected(m), <<Ev("INITIAL_SOLUTION_ERROR", ErrMsg(m))>>)
    /\ UNCHANGED <<view, screenshotQueue, extraScreenshotQueue, problemInfo, hasDebugged,
                   currentProcessingAbortController, currentExtraProcessingAbortController,
                   aborts, clipboard>>

\* Mutant of imageResolve: the record is built with the tags of the MCQ workflow.
imageResolveTaggedEasy(i, t) ==
    /\ problemInfo' = [ImageProblemInfo(t) EXCEPT !.difficulty = "easy"]
    /\ currentProcessingAbortController' = NoSlot
    /\ Continue(i, "done", <<Ev("PROBLEM_EXTRACTED", problemInfo')>>)
    /\ last' = Settled(i, Resolved(t), <<Ev("PROBLEM_EXTRACTED", problemInfo')>>)
    /\ UNCHANGED <<view, screenshotQueue, extraScreenshotQueue, hasDebugged,
                   currentExtraProcessingAbortController, aborts, clipboard>>

\* ProcessingHelper.ts:77-87,91-93
imageResolve(i, t) ==
    /\ problemInfo' = ImageProblemInfo(t)
    /\ currentProcessingAbortController' = NoSlot
    /\ Continue(i, "done", <<Ev("PROBLEM_EXTRACTED", ImageProblemInfo(t))>>)
    /\ last' = Settled(i, Resolved(t), <<Ev("PROBLEM_EXTRACTED", ImageProblemInfo(t))>>)
    /\ UNCHANGED <<view, screenshotQueue, extraScreenshotQueue, hasDebugged,
                   currentExtraProcessingAbortController, aborts, clipboard>>

\* Mutant of imageReject: the finally block does not clear the slot.
imageRejectKeepsSlot(i, m) ==
    /\ Continue(i, "done", <<Ev("INITIAL_SOLUTION_ERROR", ErrMsg(m))>>)
    /\ last' = Settled(i, Rejected(m), <<Ev("INITIAL_SOLUTION_ERROR", ErrMsg(m))>>)
    /\ UNCHANGED <<view, screenshotQueue, extraScreenshotQueue, problemInfo, hasDebugged,
                   currentProcessingAbortController,
                   currentExtraProcessingAbortController, aborts, clipboard>>

\* ProcessingHelper.ts:88-93
imageReject(i, m) ==
    /\ currentProcessingAbortController' = NoSlot
    /\ Continue(i, "done", <<Ev("INITIAL_SOLUTION_ERROR", ErrMsg(m))>>)
    /\ last' = Settled(i, Rejected(m), <<Ev("INITIAL_SOLUTION_ERROR", ErrMsg(m))>>)
    /\ UNCHANGED <<view, screenshotQueue, extraScreenshotQueue, problemInfo, hasDebugged,
                   currentExtraProcessingAbortController, aborts, clipboard>>

\* Mutant of generateSolutionResolve: HasDebugged is set once the solution is there.
generateSolutionResolveSetsFlag(i) ==
    /\ hasDebugged' = TRUE
    /\ Continue(i, "debugSolutionWithImages", <<>>)
    /\ last' = Settled(i, Resolved("solution"), <<>>)
    /\ UNCHANGED <<view, screenshotQueue, extraScreenshotQueue, problemInfo,
                   currentProcessingAbortController, currentExtraProcessingAbortController,
                   aborts, clipboard>>

\* ProcessingHelper.ts:115-123  generateSolution resolved: suspend on the debug pass
generateSolutionResolve(i) ==
    /\ Continue(i, "debugSolutionWithImages", <<>>)
    /\ last' = Settled(i, Resolved("solution"), <<>>)
    /\ UNCHANGED <<view, screenshotQueue, extraScreenshotQueue, problemInfo, hasDebugged,
                   currentProcessingAbortController, currentExtraProcessingAbortController,
                   aborts, clipboard>>

\* ProcessingHelper.ts:125-129,137-139
debugResolve(i, t) ==
    /\ hasDebugged' = TRUE
    /\ currentExtraProcessingAbortController' = NoSlot
    /\ Continue(i, "done", <<Ev("DEBUG_SUCCESS", LlmResult(t))>>)
    /\ last' = Settled(i, Resolved(t), <<Ev("DEBUG_SUCCESS", LlmResult(t))>>)
    /\ UNCHANGED <<view, screenshotQueue, extraScreenshotQueue, problemInfo,
                   currentProcessingAbortController, aborts, clipboard>>

\* Mutant of debugReject: the finally block does not clear the slot.
debugRejectKeepsSlot(i, m) ==
    /\ Continue(i, "done", <<Ev("DEBUG_ERROR", ErrMsg(m))>>)
    /\ last' = Settled(i, Rejected(m), <<Ev("DEBUG_ERROR", ErrMsg(m))>>)
    /\ UNCHANGED <<view, screenshotQueue, extraScreenshotQueue, problemInfo, hasDebugged,
                   currentProcessingAbortController,
                   currentExtraProcessingAbortController, aborts, clipboard>>

\* ProcessingHelper.ts:131-139  either debug-path call rejected
debugReject(i, m) ==
    /\ currentExtraProcessingAbortController' = NoSlot
    /\ Continue(i, "done", <<Ev("DEBUG_ERROR", ErrMsg(m))>>)
    /\ last' = Settled(i, Rejected(m), <<Ev("DEBUG_ERROR", ErrMsg(m))>>)
    /\ UNCHANGED <<view, screenshotQueue, extraScreenshotQueue, problemInfo, hasDebugged,
                   currentProcessingAbortController, aborts, clipboard>>

----------------------------------------------------------------------------
(* processMcq *)

\* ProcessingHelper.ts:173
mcqNoWindow ==
    /\ last' = Op("processMcq", 0, <<>>)
    /\ UNCHANGED <<view, screenshotQueue, extraScreenshotQueue, problemInfo, hasDebugged,
                   currentProcessingAbortController, currentExtraProcessingAbortController,
                   aborts, clipboard, calls>>

\* ProcessingHelper.ts:175-179
mcqQueueEmpty ==
    /\ Len(screenshotQueue) = 0
    /\ last' = Op("processMcq", 0, <<Ev("NO_SCREENSHOTS", NoPayload)>>)
    /\ UNCHANGED <<view, screenshotQueue, extraScreenshotQueue, problemInfo, hasDebugged,
                   currentProcessingAbortController, currentExtraProcessingAbortController,
                   aborts, clipboard, calls>>

\* ProcessingHelper.ts:181-188
mcqStart ==
    /\ Len(screenshotQueue) # 0
    /\ CanStart
    /\ view' = "solutions"
    /\ currentProcessingAbortController' = NewId
    /\ calls' = Append(calls, NewCall("mcq", "analyzeImageMcq",
                                      <<Ev("INITIAL_START", NoPayload)>>))
    /\ last' = Op("processMcq", NewId, <<Ev("INITIAL_START", NoPayload)>>)
    /\ UNCHANGED <<screenshotQueue, extraScreenshotQueue, problemInfo, hasDebugged,
                   currentExtraProcessingAbortController, aborts, clipboard>>

\* ProcessingHelper.ts:171-188
processMcq ==
    \E w \in BOOLEAN :
        \/ ~w /\ mcqNoWindow
        \/ w /\ mcqQueueEmpty
        \/ w /\ mcqStart

\* ProcessingHelper.ts:189-199,203-205
mcqResolve(i, t) ==
    /\ problemInfo' = McqProblemInfo(t)
    /\ currentProcessingAbortController' = NoSlot
    /\ Continue(i, "done", <<Ev("PROBLEM_EXTRACTED", McqProblemInfo(t))>>)
    /\ last' = Settled(i, Resolved(t), <<Ev("PROBLEM_EXTRACTED", McqProblemInfo(t))>>)
    /\ UNCHANGED <<view, screenshotQueue, extraScreenshotQueue, hasDebugged,
                   currentExtraProcessingAbortController, aborts, clipboard>>

\* Mutant of mcqReject: the failure is committed as a ProblemInfo.
mcqRejectCommits(i, m) ==
    /\ problemInfo' = McqProblemInfo(m)
    /\ currentProcessingAbortController' = NoSlot
    /\ Continue(i, "done", <<Ev("INITIAL_SOLUTION_ERROR", ErrMsg(m))>>)
    /\ last' = Settled(i, Rejected(m), <<Ev("INITIAL_SOLUTION_ERROR", ErrMsg(m))>>)
    /\ UNCHANGED <<view, screenshotQueue, extraScreenshotQueue, hasDebugged,
                   currentExtraProcessingAbortController, aborts, clipboard>>

\* ProcessingHelper.ts:200-205
mcqReject(i, m) ==
    /\ currentProcessingAbortController' = NoSlot
    /\ Continue(i, "done", <<Ev("INITIAL_SOLUTION_ERROR", ErrMsg(m))>>)
    /\ last' = Settled(i, Rejected(m), <<Ev("INITIAL_SOLUTION_ERROR", ErrMsg(m))>>)
    /\ UNCHANGED <<view, screenshotQueue, extraScreenshotQueue, problemInfo, hasDebugged,
                   currentExtraProcessingAbortController, aborts, clipboard>>

----------------------------------------------------------------------------
(* processCoding *)

\* A text is a sequence of tokens; the fence markers and the white space are
\* tokens of their own, so that the two replace() calls and trim() can be computed.
IsSpace(c) == c \in {" ", "\n"}

\* replace(/<fence>\n?/g, ''): drop every fence token and one newline after it
RECURSIVE replaceFence(_, _)
replaceFence(s, fence) ==
    IF s = <<>> THEN <<>>
    ELSE IF Head(s) = fence
         THEN IF Len(s) > 1 /\ s[2] = "\n"
              THEN replaceFence(Tail(Tail(s)), fence)
              ELSE replaceFence(Tail(s), fence)
         ELSE <<Head(s)>> \o replaceFence(Tail(s), fence)

RECURSIVE trimStart(_)
trimStart(s) == IF s # <<>> /\ IsSpace(Head(s)) THEN trimStart(Tail(s)) ELSE s

RECURSIVE trimEnd(_)
trimEnd(s) ==
    IF s # <<>> /\ IsSpace(s[Len(s)]) THEN trimEnd(SubSeq(s, 1, Len(s) - 1)) ELSE s

trim(s) == trimEnd(trimStart(s))

\* The fence markers of the source's regular expressions (three back quotes,
\* with and without the language tag).
FenceCpp == "[fence]cpp"
Fence == "[fence]"

\* ProcessingHelper.ts:222
cleanText(s) == trim(replaceFence(replaceFence(s, FenceCpp), Fence))

CodingTexts == { <<FenceCpp, "\n", "int main(){}", "\n", Fence>>,
                 <<" ", "x", Fence, "y", "\n">> }

SolutionCopied ==
    [problem_statement |-> "Solution copied to clipboard!", validation_type |-> "manual",
     output_format |-> [type |-> "text", subtype |-> "text"]]

\* ProcessingHelper.ts:210
codingNoWindow ==
    /\ last' = Op("processCoding", 0, <<>>)
    /\ UNCHANGED <<view, screenshotQueue, extraScreenshotQueue, problemInfo, hasDebugged,
                   currentProcessingAbortController, currentExtraProcessingAbortController,
                   aborts, clipboard, calls>>

\* ProcessingHelper.ts:215-216  suspend on the capture
codingStart ==
    /\ CanStart
    /\ calls' = Append(calls, NewCall("coding", "takeScreenshot", <<>>))
    /\ last' = Op("processCoding", NewId, <<>>)
    /\ UNCHANGED <<view, screenshotQueue, extraScreenshotQueue, problemInfo, hasDebugged,
                   currentProcessingAbortController, currentExtraProcessingAbortController,
                   aborts, clipboard>>

\* ProcessingHelper.ts:208-216
processCoding ==
    \E w \in BOOLEAN :
        \/ ~w /\ codingNoWindow
        \/ w /\ codingStart

\* ProcessingHelper.ts:216-219  the capture resolved: suspend on the analysis
takeScreenshotResolve(i) ==
    /\ Continue(i, "analyzeImageCoding", <<>>)
    /\ last' = Settled(i, Resolved("path"), <<>>)
    /\ UNCHANGED <<view, screenshotQueue, extraScreenshotQueue, problemInfo, hasDebugged,
                   currentProcessingAbortController, currentExtraProcessingAbortController,
                   aborts, clipboard>>

\* Mutant of codingResolve: the analysis text is copied as it is.
codingResolveRaw(i, text) ==
    /\ clipboard' = text
    /\ Continue(i, "done", <<Ev("SOLUTION_SUCCESS", SolutionCopied)>>)
    /\ last' = Settled(i, Resolved(text), <<Ev("SOLUTION_SUCCESS", SolutionCopied)>>)
    /\ UNCHANGED <<view, screenshotQueue, extraScreenshotQueue, problemInfo, hasDebugged,
                   currentProcessingAbortController, currentExtraProcessingAbortController,
                   aborts>>

\* ProcessingHelper.ts:219-235
codingResolve(i, text) ==
    /\ clipboard' = cleanText(text)
    /\ Continue(i, "done", <<Ev("SOLUTION_SUCCESS", SolutionCopied)>>)
    /\ last' = Settled(i, Resolved(text), <<Ev("SOLUTION_SUCCESS", SolutionCopied)>>)
    /\ UNCHANGED <<view, screenshotQueue, extraScreenshotQueue, problemInfo, hasDebugged,
                   currentProcessingAbortController, currentExtraProcessingAbortController,
                   aborts>>

\* ProcessingHelper.ts:237-240  the capture or the analysis rejected
codingReject(i, m) ==
    /\ Continue(i, "done", <<Ev("INITIAL_SOLUTION_ERROR", ErrMsg(m))>>)
    /\ last' = Settled(i, Rejected(m), <<Ev("INITIAL_SOLUTION_ERROR", ErrMsg(m))>>)
    /\ UNCHANGED <<view, screenshotQueue, extraScreenshotQueue, problemInfo, hasDebugged,
                   currentProcessingAbortController, currentExtraProcessingAbortController,
                   aborts, clipboard>>

----------------------------------------------------------------------------
(* The settling of a pending call, by the language-model client or the capture *)

settle ==
    \/ \E i \in Pending("analyzeAudioFile") :
          \/ \E t \in Texts : audioResolve(i, t)
          \/ \E m \in Messages : audioReject(i, m)
    \/ \E i \in Pending("analyzeImageFile") :
          \/ \E t \in Texts : imageResolve(i, t)
          \/ \E m \in Messages : imageReject(i, m)
    \/ \E i \in Pending("generateSolution") :
          \/ generateSolutionResolve(i)
          \/ \E m \in Messages : debugReject(i, m)
    \/ \E i \in Pending("debugSolutionWithImages") :
          \/ \E t \in Texts : debugResolve(i, t)
          \/ \E m \in Messages : debugReject(i, m)
    \/ \E i \in Pending("analyzeImageMcq") :
          \/ \E t \in Texts : mcqResolve(i, t)
          \/ \E m \in Messages : mcqReject(i, m)
    \/ \E i \in Pending("takeScreenshot") :
          \/ takeScreenshotResolve(i)
          \/ \E m \in Messages : codingReject(i, m)
    \/ \E i \in Pending("analyzeImageCoding") :
          \/ \E text \in CodingTexts : codingResolve(i, text)
          \/ \E m \in Messages : codingReject(i, m)

----------------------------------------------------------------------------
(* cancelOngoingRequests and the Reset Queues callback *)

\* ProcessingHelper.ts:144-147
cancelPrimary(ab) ==
    IF currentProcessingAbortController # NoSlot
    THEN [ab EXCEPT ![currentProcessingAbortController] = @ + 1]
    ELSE ab

\* ProcessingHelper.ts:149-152
cancelExtra(ab) ==
    IF currentExtraProcessingAbortController # NoSlot
    THEN [ab EXCEPT ![currentExtraProcessingAbortController] = @ + 1]
    ELSE ab

\* Mutant of cancelEffect: the slots are aborted but not cleared.
cancelEffectKeepsSlots ==
    /\ aborts' = cancelExtra(cancelPrimary(aborts))
    /\ UNCHANGED <<currentProcessingAbortController, currentExtraProcessingAbortController>>
    /\ hasDebugged' = FALSE

\* ProcessingHelper.ts:143-155  the state change of cancelOngoingRequests
cancelEffect ==
    /\ aborts' = cancelExtra(cancelPrimary(aborts))
    /\ currentProcessingAbortController' = NoSlot
    /\ currentExtraProcessingAbortController' = NoSlot
    /\ hasDebugged' = FALSE

\* ProcessingHelper.ts:143-155
cancelOngoingRequests ==
    /\ cancelEffect
    /\ last' = Op("cancelOngoingRequests", 0, <<>>)
    /\ UNCHANGED <<view, screenshotQueue, extraScreenshotQueue, problemInfo, clipboard, calls>>

\* shortcuts.ts:142-161  the callback of the Reset Queues binding;
\* w: whether there is a window that is not destroyed
resetQueues ==
    \E w \in BOOLEAN :
        /\ cancelEffect
        /\ screenshotQueue' = <<>>
        /\ extraScreenshotQueue' = <<>>
        /\ view' = "queue"
        /\ last' = Op("resetQueues", 0, IF w THEN <<Ev("reset-view", NoPayload)>> ELSE <<>>)
        /\ calls' = [i \in 1..Len(calls) |->
                        IF calls[i].pc # "done"
                        THEN [calls[i] EXCEPT !.preReset = TRUE] ELSE calls[i]]
        /\ UNCHANGED <<problemInfo, clipboard>>

----------------------------------------------------------------------------
(* The collaborators: capture fills the queues, the presentation layer sets the view *)

addScreenshot ==
    \E p \in Artifacts :
        /\ Len(screenshotQueue) < MaxQueue
        /\ screenshotQueue' = Append(screenshotQueue, p)
        /\ last' = Op("collaborator", 0, <<>>)
        /\ UNCHANGED <<view, extraScreenshotQueue, problemInfo, hasDebugged,
                       currentProcessingAbortController,
                       currentExtraProcessingAbortController, aborts, clipboard, calls>>

addExtraScreenshot ==
    \E p \in ExtraArtifacts :
        /\ Len(extraScreenshotQueue) < MaxExtraQueue
        /\ extraScreenshotQueue' = Append(extraScreenshotQueue, p)
        /\ last' = Op("collaborator", 0, <<>>)
        /\ UNCHANGED <<view, screenshotQueue, problemInfo, hasDebugged,
                       currentProcessingAbortController,
                       currentExtraProcessingAbortController, aborts, clipboard, calls>>

setView ==
    \E v \in Views :
        /\ view' = v
        /\ last' = Op("collaborator", 0, <<>>)
        /\ UNCHANGED <<screenshotQueue, extraScreenshotQueue, problemInfo, hasDebugged,
                       currentProcessingAbortController,
                       currentExtraProcessingAbortController, aborts, clipboard, calls>>

----------------------------------------------------------------------------
(* The global-shortcut registry *)

\* shortcuts.ts:89-239  the accelerators of the startup table, in source order
AccelNames ==
    <<"CommandOrControl+Shift+Space", "CommandOrControl+Shift+S", "Alt+Shift+Space",
      "CommandOrControl+H", "CommandOrControl+Shift+H", "Alt+Shift+H",
      "CommandOrControl+Enter", "CommandOrControl+Shift+Enter", "Alt+Shift+Enter",
      "CommandOrControl+R", "CommandOrControl+Shift+R", "Alt+Shift+R",
      "Alt+CommandOrControl+Left", "Alt+CommandOrControl+Right",
      "Alt+CommandOrControl+Down", "Alt+CommandOrControl+Up",
      "CommandOrControl+Shift+M", "CommandOrControl+Shift+C", "Alt+Shift+L",
      "CommandOrControl+B", "CommandOrControl+Shift+B", "Alt+Shift+B",
      "CommandOrControl+T">>

\* The accelerators and callbacks the registry's methods are called with: the
\* first MaxAccels of the table and a string that is no accelerator, on which
\* the globalShortcut calls raise.
Accels == {AccelNames[i] : i \in 1..MaxAccels}
Malformed == {"NotAnAccelerator"}
Inputs == Accels \cup Malformed
Callbacks == {"Show/Center Window", "Take Screenshot"}
FallbackLists == UNION {[1..n -> Inputs] : n \in 0..MaxFallbacks}

null == "null"

Binding(a, cb) == [accelerator |-> a, callback |-> cb]

\* globalShortcut.isRegistered: whether this application holds the accelerator
isRegistered(b, a) == \E x \in b : x.accelerator = a

\* globalShortcut.unregister
unregister(b, a) == {x \in b : x.accelerator # a}

\* globalShortcut.register: refused when another registrant holds the accelerator
\* or this application already does; held: the accelerators held elsewhere
osRegister(b, held, a, cb) ==
    IF a \in held \/ isRegistered(b, a)
    THEN [ok |-> FALSE, bound |-> b]
    ELSE [ok |-> TRUE, bound |-> b \cup {Binding(a, cb)}]

\* Whether the globalShortcut calls raise on the accelerator.
raises(a) == a \in Malformed

\* The callbacks the OS dispatch layer invokes on a key event.
dispatch(b, a) == {x.callback : x \in {y \in b : y.accelerator = a}}

\* Map.set
mapSet(m, k, v) == [x \in DOMAIN m \cup {k} |-> IF x = k THEN v ELSE m[x]]

\* Mutant of unregisterFirst: the binding already held is not unregistered.
unregisterFirstSkipped(b, a) == b

\* shortcuts.ts:19-22
unregisterFirst(b, a) == IF isRegistered(b, a) THEN unregister(b, a) ELSE b

\* Mutant of caught: the failed attempt is not recorded in the table.
caughtNotRecorded(st, a) ==
    [table |-> st.table, bound |-> st.bound, ret |-> FALSE, threw |-> FALSE]

\* shortcuts.ts:47-51  the catch block
caught(st, a) ==
    [table |-> mapSet(st.table, a, FALSE), bound |-> st.bound,
     ret |-> FALSE, threw |-> FALSE]

\* Mutant of registerShortcutOn: the accelerator is recorded as registered
\* whatever globalShortcut.register returned.
registerShortcutOnRecordsTrue(st, held, a, cb) ==
    IF raises(a)
    THEN caught(st, a)
    ELSE LET r == osRegister(unregisterFirst(st.bound, a), held, a, cb)
         IN  [table |-> mapSet(st.table, a, TRUE), bound |-> r.bound,
              ret |-> r.ok, threw |-> FALSE]

\* shortcuts.ts:12-52  st: the table and the OS bindings before the call; the
\* result is the state after the call, the value returned and whether it threw.
registerShortcutOn(st, held, a, cb) ==
    IF raises(a)
    THEN caught(st, a)
    ELSE LET r == osRegister(unregisterFirst(st.bound, a), held, a, cb)
         IN  [table |-> mapSet(st.table, a, r.ok), bound |-> r.bound,
              ret |-> r.ok, threw |-> FALSE]

\* shortcuts.ts:54-76  cands: the primary followed by the fallbacks; tried: the
\* candidates registerShortcut was called with so far, in order.
RECURSIVE tryCandidates(_, _, _, _, _)
tryCandidates(st, held, cands, cb, tried) ==
    IF cands = <<>>
    THEN [table |-> st.table, bound |-> st.bound, success |-> FALSE,
          accelerator |-> null, tried |-> tried, threw |-> FALSE]
    ELSE LET c == Head(cands)
             r == registerShortcutOn(st, held, c, cb)
         IN  IF r.threw
             THEN [table |-> r.table, bound |-> r.bound, success |-> FALSE,
                   accelerator |-> null, tried |-> Append(tried, c), threw |-> TRUE]
             ELSE IF r.ret
             THEN [table |-> r.table, bound |-> r.bound, success |-> TRUE,
                   accelerator |-> c, tried |-> Append(tried, c), threw |-> FALSE]
             ELSE tryCandidates([table |-> r.table, bound |-> r.bound], held,
                                Tail(cands), cb, Append(tried, c))

Reverse(q) == [i \in 1..Len(q) |-> q[Len(q) + 1 - i]]

\* Mutant of registerWithFallbackOn: the fallbacks are tried last to first.
registerWithFallbackReversed(st, held, primary, fallbacks, cb) ==
    tryCandidates(st, held, <<primary>> \o Reverse(fallbacks), cb, <<>>)

\* shortcuts.ts:54-76
registerWithFallbackOn(st, held, primary, fallbacks, cb) ==
    tryCandidates(st, held, <<primary>> \o fallbacks, cb, <<>>)

regState == [table |-> registeredShortcuts, bound |-> bound]

\* shortcuts.ts:12-52
registerShortcut ==
    \E a \in Inputs, cb \in Callbacks :
        /\ lastReg' = [op |-> "registerShortcut", accelerator |-> a, callback |-> cb,
                       callbacksBefore |-> dispatch(bound, a),
                       entryBefore |-> IF a \in DOMAIN registeredShortcuts
                                       THEN {registeredShortcuts[a]} ELSE {},
                       res |-> registerShortcutOn(regState, heldElsewhere, a, cb)]
        /\ registeredShortcuts' = lastReg'.res.table
        /\ bound' = lastReg'.res.bound
        /\ UNCHANGED heldElsewhere

\* shortcuts.ts:54-76
registerWithFallback ==
    \E primary \in Inputs, fallbacks \in FallbackLists, cb \in Callbacks :
        /\ lastReg' = [op |-> "registerWithFallback",
                       candidates |-> <<primary>> \o fallbacks, callback |-> cb,
                       res |-> registerWithFallbackOn(regState, heldElsewhere, primary,
                                                      fallbacks, cb)]
        /\ registeredShortcuts' = lastReg'.res.table
        /\ bound' = lastReg'.res.bound
        /\ UNCHANGED heldElsewhere

\* Another registrant claims an accelerator this application does not hold.
otherClaims ==
    \E a \in Accels :
        /\ a \notin heldElsewhere
        /\ ~isRegistered(bound, a)
        /\ heldElsewhere' = heldElsewhere \cup {a}
        /\ lastReg' = [op |-> "other"]
        /\ UNCHANGED <<registeredShortcuts, bound>>

\* Another registrant releases an accelerator.
otherReleases ==
    \E a \in heldElsewhere :
        /\ heldElsewhere' = heldElsewhere \ {a}
        /\ lastReg' = [op |-> "other"]
        /\ UNCHANGED <<registeredShortcuts, bound>>

----------------------------------------------------------------------------
(* registerGlobalShortcuts: the startup registration *)

Entry(description, candidates, withFallback, async) ==
    [description |-> description, candidates |-> candidates,
     withFallback |-> withFallback, async |-> async]

\* Mutant of StartupTable: MCQ Mode is given the accelerator of Take Screenshot.
StartupTableSharedAccelerator ==
    <<Entry("Show/Center Window", SubSeq(AccelNames, 1, 3), TRUE, FALSE),
      Entry("Take Screenshot", SubSeq(AccelNames, 4, 6), TRUE, TRUE),
      Entry("Process Screenshots", SubSeq(AccelNames, 7, 9), TRUE, TRUE),
      Entry("Reset Queues", SubSeq(AccelNames, 10, 12), TRUE, FALSE),
      Entry("Move Window Left", <<AccelNames[13]>>, FALSE, FALSE),
      Entry("Move Window Right", <<AccelNames[14]>>, FALSE, FALSE),
      Entry("Move Window Down", <<AccelNames[15]>>, FALSE, FALSE),
      Entry("Move Window Up", <<AccelNames[16]>>, FALSE, FALSE),
      Entry("MCQ Mode", <<AccelNames[4]>>, FALSE, TRUE),
      Entry("Coding Mode", <<AccelNames[18]>>, FALSE, TRUE),
      Entry("Toggle Chat", <<AccelNames[19]>>, FALSE, FALSE),
      Entry("Toggle Window", SubSeq(AccelNames, 20, 23), TRUE, FALSE)>>

\* shortcuts.ts:88-259  the calls of registerGlobalShortcuts in source order:
\* the action, its primary accelerator followed by its fallbacks, whether it is
\* registered by registerWithFallback, and whether its callback is async
StartupTable ==
    <<Entry("Show/Center Window", SubSeq(AccelNames, 1, 3), TRUE, FALSE),
      Entry("Take Screenshot", SubSeq(AccelNames, 4, 6), TRUE, TRUE),
      Entry("Process Screenshots", SubSeq(AccelNames, 7, 9), TRUE, TRUE),
      Entry("Reset Queues", SubSeq(AccelNames, 10, 12), TRUE, FALSE),
      Entry("Move Window Left", <<AccelNames[13]>>, FALSE, FALSE),
      Entry("Move Window Right", <<AccelNames[14]>>, FALSE, FALSE),
      Entry("Move Window Down", <<AccelNames[15]>>, FALSE, FALSE),
      Entry("Move Window Up", <<AccelNames[16]>>, FALSE, FALSE),
      Entry("MCQ Mode", <<AccelNames[17]>>, FALSE, TRUE),
      Entry("Coding Mode", <<AccelNames[18]>>, FALSE, TRUE),
      Entry("Toggle Chat", <<AccelNames[19]>>, FALSE, FALSE),
      Entry("Toggle Window", SubSeq(AccelNames, 20, 23), TRUE, FALSE)>>

StartupAccels == {AccelNames[i] : i \in 1..Len(AccelNames)}

\* One call of the startup table on state st.
registerEntry(st, held, e) ==
    IF e.withFallback
    THEN registerWithFallbackOn(st, held, Head(e.candidates), Tail(e.candidates),
                                e.description)
    ELSE registerShortcutOn(st, held, e.candidates[1], e.description)

\* shortcuts.ts:88-262  the calls from the k-th on; trace: the OS bindings of
\* this application before the first call and after each call so far
RECURSIVE registerFrom(_, _, _, _)
registerFrom(st, held, k, trace) ==
    IF k > Len(StartupTable)
    THEN [table |-> st.table, bound |-> st.bound, trace |-> trace]
    ELSE LET r == registerEntry(st, held, StartupTable[k])
         IN  registerFrom([table |-> r.table, bound |-> r.bound], held, k + 1,
                          Append(trace, r.bound))

\* shortcuts.ts:78-304  called once, when the application is ready
registerGlobalShortcuts ==
    /\ ~started
    /\ started' = TRUE
    /\ lastReg' = [op |-> "registerGlobalShortcuts",
                   res |-> registerFrom(regState, heldElsewhere, 1, <<bound>>)]
    /\ registeredShortcuts' = lastReg'.res.table
    /\ bound' = lastReg'.res.bound
    /\ UNCHANGED <<heldElsewhere, promises, timers, hostErrors, lastKey, quit>>

\* Another registrant holds an accelerator of the startup table before the
\* application starts.
otherClaimsBeforeStartup ==
    \E a \in StartupAccels :
        /\ ~started
        /\ a \notin heldElsewhere
        /\ Cardinality(heldElsewhere) < MaxHeld
        /\ heldElsewhere' = heldElsewhere \cup {a}
        /\ lastReg' = [op |-> "other"]
        /\ UNCHANGED <<registeredShortcuts, bound, keyVars>>

----------------------------------------------------------------------------
(* verifyShortcuts and the teardown *)

\* shortcuts.ts:309-310  the line logged for a recorded accelerator
verifyLine(a) ==
    [accelerator |-> a, expected |-> registeredShortcuts[a],
     actual |-> isRegistered(bound, a)]

\* shortcuts.ts:306-312  one line per recorded accelerator, in the order of the
\* Map; isRegistered raises on a recorded string that is no accelerator and
\* the method, which has no try block, then throws after the lines of the
\* entries before it.  The order of the Map is not part of the state: lines
\* holds the lines of all the entries isRegistered does not raise on, those
\* logged before the throw being among them.
verifyShortcuts ==
    /\ lastReg' = [op |-> "verifyShortcuts",
                   lines |-> {verifyLine(a) :
                                 a \in {x \in DOMAIN registeredShortcuts : ~raises(x)}},
                   threw |-> \E a \in DOMAIN registeredShortcuts : raises(a)]
    /\ UNCHANGED <<registeredShortcuts, bound, heldElsewhere>>

\* shortcuts.ts:300-303  the will-quit listener, registered by
\* registerGlobalShortcuts: globalShortcut.unregisterAll()
willQuit ==
    /\ started
    /\ ~quit
    /\ quit' = TRUE
    /\ bound' = {}
    /\ lastReg' = [op |-> "willQuit"]
    /\ UNCHANGED <<registeredShortcuts, heldElsewhere, started, promises, timers,
                   hostErrors, lastKey>>

----------------------------------------------------------------------------
(* The dispatch of a key event to the wrapper of a binding *)

\* Whether the callback bound for an action is an async function.
isAsync(cb) == \E k \in 1..Len(StartupTable) :
                  StartupTable[k].description = cb /\ StartupTable[k].async

\* What a call of the callback does: an async function returns a promise and
\* never throws; a plain function returns undefined or throws.
Behaviours(cb) == IF isAsync(cb) THEN {"promise"} ELSE {"returns", "throws"}

\* Mutant of wrapper: the callback is called without try/catch and without
\* a rejection handler.
wrapperBare(o) ==
    [logged |-> FALSE, propagates |-> o = "throws", catches |-> FALSE]

\* shortcuts.ts:26-36  the function handed to globalShortcut.register, on a
\* call of the callback that behaves as o: whether it logs an error, whether
\* an exception leaves it, and whether it attaches a rejection handler to the
\* value returned
wrapper(o) ==
    [logged |-> o = "throws", propagates |-> FALSE, catches |-> o = "promise"]

\* A key event on an accelerator this application holds: the OS dispatch layer
\* calls the wrapper of the binding.  sched: whether the Toggle Window callback
\* sets its timer (shortcuts.ts:245-255).
keyEvent ==
    \E x \in bound, sched \in BOOLEAN :
        \E o \in Behaviours(x.callback) :
            /\ sched => (x.callback = "Toggle Window" /\ o = "returns" /\ timers < MaxTimers)
            /\ o = "promise" =>
                  /\ Cardinality(promises) < MaxPending
                  /\ \A p \in promises : p.callback # x.callback
            /\ lastKey' = [op |-> "keyEvent", callback |-> x.callback, behaviour |-> o,
                           res |-> wrapper(o)]
            /\ promises' = IF o = "promise"
                           THEN promises \cup {[callback |-> x.callback,
                                                catches |-> lastKey'.res.catches]}
                           ELSE promises
            /\ hostErrors' = IF lastKey'.res.propagates
                             THEN hostErrors \cup {[kind |-> "uncaught exception",
                                                    callback |-> x.callback]}
                             ELSE hostErrors
            /\ timers' = IF sched THEN timers + 1 ELSE timers
            /\ UNCHANGED <<started, quit, regVars>>

\* The promise an async callback returned settles.  It is rejected when
\* something is thrown in the callback outside a try block or inside a catch
\* block, as when webContents.send throws while a workflow reports an error
\* (ProcessingHelper.ts:66, 90, 133, 202, 239).  A rejection with a handler
\* attached is logged (shortcuts.ts:31); one without is an unhandled rejection.
promiseSettles ==
    \E p \in promises, rejected \in BOOLEAN :
        /\ promises' = promises \ {p}
        /\ lastKey' = [op |-> "promiseSettles", callback |-> p.callback,
                       rejected |-> rejected, logged |-> rejected /\ p.catches]
        /\ hostErrors' = IF rejected /\ ~p.catches
                         THEN hostErrors \cup {[kind |-> "unhandled rejection",
                                                callback |-> p.callback]}
                         ELSE hostErrors
        /\ UNCHANGED <<started, timers, quit, regVars>>

\* shortcuts.ts:250-254  the timer of the Toggle Window callback fires: the
\* window is touched only when it is not destroyed, so nothing is thrown
timerFires ==
    \E destroyed \in BOOLEAN :
        /\ timers > 0
        /\ timers' = timers - 1
        /\ lastKey' = [op |-> "timerFires", setAlwaysOnTop |-> ~destroyed]
        /\ UNCHANGED <<started, promises, hostErrors, quit, regVars>>

----------------------------------------------------------------------------
(* Specifications *)

\* shortcuts.ts:6
InitReg ==
    /\ registeredShortcuts = <<>>
    /\ bound = {}
    /\ heldElsewhere = {}
    /\ lastReg = [op |-> "init"]

InitKeys ==
    /\ started = FALSE
    /\ promises = {}
    /\ timers = 0
    /\ hostErrors = {}
    /\ lastKey = [op |-> "init"]
    /\ quit = FALSE

Init == InitProc /\ InitReg /\ InitKeys

\* The processing orchestrator, under every interleaving of its entry points,
\* the settling of its pending calls and its collaborators.
Next ==
    \/ (processScreenshots /\ UNCHANGED <<regVars, keyVars>>)
    \/ (processMcq /\ UNCHANGED <<regVars, keyVars>>)
    \/ (processCoding /\ UNCHANGED <<regVars, keyVars>>)
    \/ (settle /\ UNCHANGED <<regVars, keyVars>>)
    \/ (cancelOngoingRequests /\ UNCHANGED <<regVars, keyVars>>)
    \/ (resetQueues /\ UNCHANGED <<regVars, keyVars>>)
    \/ (addScreenshot /\ UNCHANGED <<regVars, keyVars>>)
    \/ (addExtraScreenshot /\ UNCHANGED <<regVars, keyVars>>)
    \/ (setView /\ UNCHANGED <<regVars, keyVars>>)

Spec == Init /\ [][Next]_vars

\* Invocation i is suspended on a call that has not settled.
PendingCall(i) == i \in 1..Len(calls) /\ calls[i].pc # "done"

\* The orchestrator when every pending call of the language-model client and
\* of the capture eventually settles, by resolving or by being rejected.  The
\* settling of the call of invocation i is enabled exactly when PendingCall(i)
\* and an invocation suspends at most twice, so weak fairness of that step,
\* WF_vars(settle /\ last'.id = i), is the condition that PendingCall(i) is
\* false again and again; it is stated in that form.
SpecFair ==
    /\ Init
    /\ [][Next]_vars
    /\ \A i \in 1..MaxCalls : []<>~PendingCall(i)

\* The shortcut registry, under every sequence of registration calls and
\* every behaviour of the other registrants.
NextRegistry ==
    \/ (registerShortcut /\ UNCHANGED <<procVars, keyVars>>)
    \/ (registerWithFallback /\ UNCHANGED <<procVars, keyVars>>)
    \/ (otherClaims /\ UNCHANGED <<procVars, keyVars>>)
    \/ (otherReleases /\ UNCHANGED <<procVars, keyVars>>)

SpecRegistry == Init /\ [][NextRegistry]_vars

\* The startup registration, for every set of at most MaxHeld accelerators held
\* by other registrants when the application starts.
NextStartup ==
    \/ (otherClaimsBeforeStartup /\ UNCHANGED procVars)
    \/ (registerGlobalShortcuts /\ UNCHANGED procVars)

SpecStartup == Init /\ [][NextStartup]_vars

\* The application after its start: key events on the accelerators it holds,
\* the settling of the promises its callbacks returned, and its timers.
NextDispatch ==
    \/ (otherClaims /\ UNCHANGED <<procVars, keyVars>>)
    \/ (otherReleases /\ UNCHANGED <<procVars, keyVars>>)
    \/ (registerGlobalShortcuts /\ UNCHANGED procVars)
    \/ (keyEvent /\ UNCHANGED procVars)
    \/ (promiseSettles /\ UNCHANGED procVars)
    \/ (timerFires /\ UNCHANGED procVars)

SpecDispatch == Init /\ [][NextDispatch]_vars

\* The registry over the life of the application: registration calls, the
\* startup registration, verifyShortcuts, the other registrants, and the
\* teardown, after which nothing of the application runs.
NextLifecycle ==
    \/ (~quit /\ registerShortcut /\ UNCHANGED <<procVars, keyVars>>)
    \/ (~quit /\ registerWithFallback /\ UNCHANGED <<procVars, keyVars>>)
    \/ (~quit /\ registerGlobalShortcuts /\ UNCHANGED procVars)
    \/ (~quit /\ verifyShortcuts /\ UNCHANGED <<procVars, keyVars>>)
    \/ (~quit /\ otherClaims /\ UNCHANGED <<procVars, keyVars>>)
    \/ (~quit /\ otherReleases /\ UNCHANGED <<procVars, keyVars>>)
    \/ (willQuit /\ UNCHANGED procVars)

SpecLifecycle == Init /\ [][NextLifecycle]_vars

----------------------------------------------------------------------------
(* Properties of the shortcut registry, checked under SpecRegistry *)

\* Whether the OS accepts a claim of accelerator c by this application.
osAccepts(c) == c \notin heldElsewhere /\ c \notin Malformed

FirstAccepted(cands) ==
    CHOOSE i \in 1..Len(cands) :
        /\ osAccepts(cands[i])
        /\ \A j \in 1..(i - 1) : ~osAccepts(cands[j])

\* C1: registerWithFallback tries the primary and then the fallbacks in order
\* and stops at the first candidate the OS accepts: it returns success with
\* that candidate, has called registerShortcut with exactly the candidates up
\* to it, and the candidate is bound to the callback; when the OS accepts no
\* candidate it returns {success: false, accelerator: null} without throwing
\* and none of the candidates is bound.
C1_FirstAcceptedCandidate ==
    lastReg.op = "registerWithFallback" =>
        LET cands == lastReg.candidates
            res == lastReg.res
        IN  /\ ~res.threw
            /\ IF \E i \in 1..Len(cands) : osAccepts(cands[i])
               THEN /\ res.success
                    /\ res.accelerator = cands[FirstAccepted(cands)]
                    /\ res.tried = SubSeq(cands, 1, FirstAccepted(cands))
                    /\ dispatch(bound, res.accelerator) = {lastReg.callback}
               ELSE /\ ~res.success
                    /\ res.accelerator = null
                    /\ res.tried = cands
                    /\ \A i \in 1..Len(cands) : ~isRegistered(bound, cands[i])

\* C1 witness: the primary and the first fallback are held by another
\* registrant and the call succeeded with the second fallback.
C1_Witness ==
    /\ lastReg.op = "registerWithFallback"
    /\ Len(lastReg.candidates) = 3
    /\ lastReg.candidates[1] \in heldElsewhere
    /\ lastReg.candidates[2] \in heldElsewhere
    /\ lastReg.res.success
    /\ lastReg.res.accelerator = lastReg.candidates[3]

\* C9: after registerShortcut on an accelerator this registry already held,
\* at most one binding exists for it and a key event on it invokes no callback
\* but the one of this call.
C9_ReRegisterSupersedes ==
    (lastReg.op = "registerShortcut" /\ lastReg.callbacksBefore # {}) =>
        /\ Cardinality({x \in bound : x.accelerator = lastReg.accelerator}) <= 1
        /\ dispatch(bound, lastReg.accelerator) \subseteq {lastReg.callback}

\* C9 witness: the accelerator was bound to one callback and has been
\* registered again with another, which is now the one bound.
C9_Witness ==
    /\ lastReg.op = "registerShortcut"
    /\ lastReg.callbacksBefore = {"Show/Center Window"}
    /\ lastReg.callback = "Take Screenshot"
    /\ dispatch(bound, lastReg.accelerator) = {"Take Screenshot"}

\* C10: registerShortcut never throws; it returns false when the OS refuses
\* the claim or the OS call raises; and the binding table then maps the
\* accelerator to exactly the boolean returned.
C10_ReturnsAndRecords ==
    lastReg.op = "registerShortcut" =>
        /\ ~lastReg.res.threw
        /\ (lastReg.accelerator \in heldElsewhere \/ raises(lastReg.accelerator))
               => lastReg.res.ret = FALSE
        /\ lastReg.accelerator \in DOMAIN registeredShortcuts
        /\ registeredShortcuts[lastReg.accelerator] = lastReg.res.ret

\* C10 witness: an entry recorded as failed has been overwritten by a
\* successful attempt, and a raising call has been recorded as failed.
C10_Witness ==
    /\ lastReg.op = "registerShortcut"
    /\ lastReg.entryBefore = {FALSE}
    /\ lastReg.res.ret = TRUE
    /\ registeredShortcuts[lastReg.accelerator] = TRUE
    /\ \E m \in Malformed : m \in DOMAIN registeredShortcuts /\ ~registeredShortcuts[m]

----------------------------------------------------------------------------
(* Properties of the processing orchestrator, checked under Spec *)

InFlight(i) == calls[i].pc # "done"
PrimaryKinds == {"image", "mcq"}
SlotKinds == {"image", "mcq", "debug"}

\* The slot an invocation of a slot-owning kind opens, now and after the step.
slotOf(i) ==
    IF calls[i].kind \in PrimaryKinds
    THEN currentProcessingAbortController ELSE currentExtraProcessingAbortController
slotOfNext(i) ==
    IF calls[i].kind \in PrimaryKinds
    THEN currentProcessingAbortController' ELSE currentExtraProcessingAbortController'

Names(evs) == {evs[k].name : k \in 1..Len(evs)}

\* C2 (as claimed): once cancelAll has aborted the token of an image, MCQ or
\* debug workflow that is suspended on its call, the call settling
\* successfully changes neither ProblemInfo nor HasDebugged and sends neither
\* ProblemExtracted nor DebugSuccess.
C2_LateResultDiscarded ==
    [][\A i \in 1..Len(calls) :
          (/\ calls[i].kind \in SlotKinds
           /\ InFlight(i)
           /\ aborts[i] > 0
           /\ last'.op = "settle"
           /\ last'.id = i
           /\ last'.outcome.ok)
          => /\ problemInfo' = problemInfo
             /\ hasDebugged' = hasDebugged
             /\ Names(last'.sent) \cap {"PROBLEM_EXTRACTED", "DEBUG_SUCCESS"} = {}]_vars

\* Each slot is empty or holds the token of an in-flight workflow of its kind.
SlotsHoldInFlight ==
    /\ currentProcessingAbortController # NoSlot =>
          /\ currentProcessingAbortController \in 1..Len(calls)
          /\ calls[currentProcessingAbortController].kind \in PrimaryKinds
          /\ InFlight(currentProcessingAbortController)
    /\ currentExtraProcessingAbortController # NoSlot =>
          /\ currentExtraProcessingAbortController \in 1..Len(calls)
          /\ calls[currentExtraProcessingAbortController].kind = "debug"
          /\ InFlight(currentExtraProcessingAbortController)

\* C3 (as claimed): each slot is empty or holds the token of one in-flight
\* workflow, and every in-flight slot-owning workflow has its token in its slot.
C3_SlotExclusivity ==
    /\ SlotsHoldInFlight
    /\ \A i \in 1..Len(calls) :
          (calls[i].kind \in SlotKinds /\ InFlight(i)) => slotOf(i) = i

\* C3 (amended): each slot is empty or holds the token of one in-flight
\* workflow of its kind; an in-flight slot-owning workflow has its token in its
\* slot as long as cancelAll has not aborted it and no other workflow of the
\* same slot has been started.
C3_SlotEmptyOrInFlight ==
    /\ SlotsHoldInFlight
    /\ \A i \in 1..Len(calls) :
          (/\ calls[i].kind \in SlotKinds
           /\ InFlight(i)
           /\ aborts[i] = 0
           /\ \A j \in 1..Len(calls) :
                 j # i => (calls[j].kind \in PrimaryKinds) # (calls[i].kind \in PrimaryKinds)
                          \/ calls[j].kind \notin SlotKinds)
          => slotOf(i) = i

\* C3 witness: two workflows of the primary slot are in flight; the slot holds
\* the token of the second and the first has lost its slot.
C3_Witness ==
    /\ Len(calls) = 2
    /\ calls[1].kind = "image" /\ InFlight(1)
    /\ calls[2].kind = "mcq" /\ InFlight(2)
    /\ currentProcessingAbortController = 2

\* The step in which the call of extraction or coding workflow i is rejected.
FailStep(i) ==
    /\ calls[i].kind \in {"audio", "image", "mcq", "coding"}
    /\ InFlight(i)
    /\ last'.op = "settle"
    /\ last'.id = i
    /\ ~last'.outcome.ok

FailureReported(i) ==
    /\ last'.sent = <<Ev("INITIAL_SOLUTION_ERROR", ErrMsg(last'.outcome.message))>>
    /\ calls'[i].pc = "done"
    /\ calls[i].kind \in PrimaryKinds => currentProcessingAbortController' = NoSlot

\* C4 (as claimed): when the call of an audio, image, MCQ or coding workflow
\* fails, ProblemInfo after the workflow ends is what it was before the workflow
\* started, the error event carries the failure message and the slot the
\* workflow opened is empty.
C4_FailureRestoresStart ==
    [][\A i \in 1..Len(calls) :
          FailStep(i) => /\ problemInfo' = calls[i].infoAtStart
                         /\ FailureReported(i)]_vars

\* C4 (amended): the failing workflow never writes ProblemInfo: the step that
\* handles the failure leaves it unchanged, so it is what it was before the
\* workflow started whenever no other extraction workflow has run; the error
\* event carries the failure message and the slot the workflow opened is empty.
C4_FailureWritesNothing ==
    [][\A i \in 1..Len(calls) :
          FailStep(i) =>
             /\ problemInfo' = problemInfo
             /\ (\A j \in 1..Len(calls) : j # i => calls[j].kind \in {"coding", "debug"})
                    => problemInfo' = calls[i].infoAtStart
             /\ FailureReported(i)]_vars

\* C4 witness: an MCQ analysis has just failed while a ProblemInfo was
\* committed; the ProblemInfo is still there and the primary slot is empty.
C4_Witness ==
    /\ last.op = "settle"
    /\ ~last.outcome.ok
    /\ calls[last.id].kind = "mcq"
    /\ problemInfo # Null
    /\ currentProcessingAbortController = NoSlot

\* C5: processScreenshots on the debug path (any view but queue, a non-empty
\* secondary queue) with no committed ProblemInfo sends DebugStart and then
\* DebugError "No problem info available", returns without suspending on
\* generateSolution or debugSolutionWithImages, leaves HasDebugged and
\* ProblemInfo unchanged and leaves the secondary slot empty.
C5_DebugWithoutProblemInfo ==
    [][(/\ last'.op = "processScreenshots"
        /\ last'.sent # <<>>
        /\ view # "queue"
        /\ Len(extraScreenshotQueue) # 0
        /\ problemInfo = Null)
       => /\ last'.sent = <<Ev("DEBUG_START", NoPayload),
                            Ev("DEBUG_ERROR", ErrMsg("No problem info available"))>>
          /\ Len(calls') = Len(calls) + 1
          /\ calls'[Len(calls')].kind = "debug"
          /\ calls'[Len(calls')].pc = "done"
          /\ hasDebugged' = hasDebugged
          /\ problemInfo' = problemInfo
          /\ currentExtraProcessingAbortController' = NoSlot]_vars

\* C5 witness: in the debug view, with no ProblemInfo, the debug workflow has
\* just ended with the two events.
C5_Witness ==
    /\ last.op = "processScreenshots"
    /\ view = "debug"
    /\ problemInfo = Null
    /\ last.sent = <<Ev("DEBUG_START", NoPayload),
                     Ev("DEBUG_ERROR", ErrMsg("No problem info available"))>>
    /\ calls[last.id].kind = "debug"

\* C6: processScreenshots with the relevant queue empty (the primary queue in
\* the queue view, the secondary queue in the debug view) sends nothing but
\* NoScreenshots, starts no invocation, and changes neither ProblemInfo,
\* HasDebugged, the view nor a slot.
C6_EmptyQueueIsBenign ==
    [][(/\ last'.op = "processScreenshots"
        /\ \/ view = "queue" /\ Len(screenshotQueue) = 0
           \/ view = "debug" /\ Len(extraScreenshotQueue) = 0)
       => /\ last'.sent \in {<<>>, <<Ev("NO_SCREENSHOTS", NoPayload)>>}
          /\ last'.id = 0
          /\ UNCHANGED <<view, problemInfo, hasDebugged, calls, aborts,
                         currentProcessingAbortController,
                         currentExtraProcessingAbortController>>]_vars

\* C6 witness: in the debug view with an empty secondary queue and a committed
\* ProblemInfo, processScreenshots has just sent NoScreenshots.
C6_Witness ==
    /\ last.op = "processScreenshots"
    /\ last.sent = <<Ev("NO_SCREENSHOTS", NoPayload)>>
    /\ view = "debug"
    /\ Len(extraScreenshotQueue) = 0
    /\ problemInfo # Null

\* C7 (as claimed): Reset Queues leaves both slots and both queues empty,
\* HasDebugged false and the view queue; and the slot of a workflow started
\* after the reset stays its own when a workflow that was in flight before the
\* reset settles.
C7_ReadyAfterReset ==
    [][/\ last'.op = "resetQueues" =>
             /\ currentProcessingAbortController' = NoSlot
             /\ currentExtraProcessingAbortController' = NoSlot
             /\ hasDebugged' = FALSE
             /\ screenshotQueue' = <<>>
             /\ extraScreenshotQueue' = <<>>
             /\ view' = "queue"
       /\ \A a, b \in 1..Len(calls) :
             (/\ InFlight(a) /\ calls[a].preReset
              /\ InFlight(b) /\ ~calls[b].preReset
              /\ calls[b].kind \in SlotKinds
              /\ slotOf(b) = b
              /\ last'.op = "settle"
              /\ last'.id = a)
             => slotOfNext(b) = b]_vars

\* C8: cancelOngoingRequests empties both slots and resets HasDebugged; it
\* aborts exactly the tokens the slots held, once each (none when both were
\* empty); it changes neither ProblemInfo, the view, the queues nor the
\* invocations; and run right after itself it changes nothing.
C8_CancelIdempotent ==
    [][last'.op = "cancelOngoingRequests" =>
          /\ currentProcessingAbortController' = NoSlot
          /\ currentExtraProcessingAbortController' = NoSlot
          /\ hasDebugged' = FALSE
          /\ \A t \in DOMAIN aborts :
                aborts'[t] = aborts[t]
                    + (IF t \in {currentProcessingAbortController,
                                 currentExtraProcessingAbortController} THEN 1 ELSE 0)
          /\ UNCHANGED <<problemInfo, view, screenshotQueue, extraScreenshotQueue,
                         calls, clipboard>>
          /\ last.op = "cancelOngoingRequests" => UNCHANGED procVars]_vars

\* C8 witness: cancelOngoingRequests has just run while a workflow was in
\* flight; its token has been aborted once and both slots are empty.
C8_Witness ==
    /\ last.op = "cancelOngoingRequests"
    /\ \E t \in 1..Len(calls) : InFlight(t) /\ aborts[t] = 1
    /\ currentProcessingAbortController = NoSlot
    /\ currentExtraProcessingAbortController = NoSlot
    /\ ~hasDebugged

\* The step in which the call of workflow i of one of the kinds settles.
SettleStep(i, kinds) ==
    /\ calls[i].kind \in kinds
    /\ InFlight(i)
    /\ last'.op = "settle"
    /\ last'.id = i

IsAudio(path) == endsWith(path, ".mp3") \/ endsWith(path, ".wav")

\* C12: when the image analysis of an image workflow succeeds with text t, the
\* workflow sends one ProblemExtracted event whose payload has problem_statement
\* t, difficulty "custom" and validation_type "manual", and when it ends the
\* committed ProblemInfo is that payload.
C12_ImagePayloadCommitted ==
    [][\A i \in 1..Len(calls) :
          (SettleStep(i, {"image"}) /\ last'.outcome.ok) =>
             /\ Len(last'.sent) = 1
             /\ last'.sent[1].name = "PROBLEM_EXTRACTED"
             /\ last'.sent[1].payload.problem_statement = last'.outcome.text
             /\ last'.sent[1].payload.difficulty = "custom"
             /\ last'.sent[1].payload.validation_type = "manual"
             /\ calls'[i].pc = "done"
             /\ problemInfo' = last'.sent[1].payload]_vars

\* C12 witness: the analysis of shot1.png has just resolved with "2+2=4" and
\* the record built from it is the committed ProblemInfo.
C12_Witness ==
    /\ last.op = "settle"
    /\ last.outcome = Resolved("2+2=4")
    /\ calls[last.id].kind = "image"
    /\ last.sent = <<Ev("PROBLEM_EXTRACTED", problemInfo)>>
    /\ problemInfo.problem_statement = "2+2=4"
    /\ problemInfo.difficulty = "custom"

\* C13 (as claimed): when the audio analysis succeeds with text t, the payload
\* of ProblemExtracted is the record {problem_statement: t, input_format: {},
\* output_format: {}, constraints: [], test_cases: []} and that record is the
\* committed ProblemInfo.
C13_AudioPayloadCommitted ==
    [][\A i \in 1..Len(calls) :
          (SettleStep(i, {"audio"}) /\ last'.outcome.ok) =>
             /\ last'.sent = <<Ev("PROBLEM_EXTRACTED",
                                  AudioProblemInfo(last'.outcome.text))>>
             /\ problemInfo' = last'.sent[1].payload]_vars

\* C14: in the queue view with a non-empty primary queue, processScreenshots
\* suspends on the audio analysis when the last artifact has an audio suffix
\* and on the image analysis otherwise, never on the other one; it has then
\* sent Started and switched the view to solutions, and ProblemExtracted is
\* sent only by a workflow that has done so before.
C14_RoutedBySuffix ==
    [][/\ (/\ last'.op = "processScreenshots"
           /\ last'.sent # <<>>
           /\ view = "queue"
           /\ Len(screenshotQueue) # 0)
          => /\ last'.id = Len(calls) + 1
             /\ Len(calls') = Len(calls) + 1
             /\ calls'[last'.id].kind = IF IsAudio(lastPath) THEN "audio" ELSE "image"
             /\ calls'[last'.id].pc = IF IsAudio(lastPath) THEN "analyzeAudioFile"
                                                         ELSE "analyzeImageFile"
             /\ last'.sent = <<Ev("INITIAL_START", NoPayload)>>
             /\ calls'[last'.id].events = last'.sent
             /\ view' = "solutions"
       /\ \A i \in 1..Len(calls) :
             /\ calls'[i].kind = calls[i].kind
             /\ calls'[i].pc \in {calls[i].pc, "done"} \cup
                   (IF calls[i].kind \in {"audio", "image"} THEN {}
                    ELSE {"debugSolutionWithImages", "analyzeImageCoding"})
             /\ (/\ SettleStep(i, {"audio", "image"})
                 /\ "PROBLEM_EXTRACTED" \in Names(last'.sent))
                => calls[i].events = <<Ev("INITIAL_START", NoPayload)>>]_vars

\* C14 witness: the queue holds an image and then an audio artifact, and
\* processScreenshots has just suspended on the audio analysis.
C14_Witness ==
    /\ last.op = "processScreenshots"
    /\ last.id # 0
    /\ calls[last.id].kind = "audio"
    /\ calls[last.id].pc = "analyzeAudioFile"
    /\ screenshotQueue = <<Path("shot1", ".png"), Path("voice", ".mp3")>>
    /\ view = "solutions"

IsFence(c) == c \in {Fence, FenceCpp}
NotSpace(c) == ~IsSpace(c)
IsContent(c) == ~IsFence(c) /\ ~IsSpace(c)

\* out is text with the fence markers stripped and trimmed: it holds no fence
\* marker, neither starts nor ends with white space, and holds the tokens of
\* text that are neither markers nor white space, in their order.
Cleaned(text, out) ==
    /\ \A k \in 1..Len(out) : ~IsFence(out[k])
    /\ out # <<>> => NotSpace(out[1]) /\ NotSpace(out[Len(out)])
    /\ SelectSeq(out, NotSpace) = SelectSeq(text, IsContent)

\* C15: no step of processCoding changes ProblemInfo, the view, HasDebugged
\* or a slot; when the analysis succeeds the clipboard holds the cleaned text
\* (for the fenced "int main(){}" exactly that line) and the one event of the
\* workflow is SolutionSuccess; when the capture or the analysis fails the
\* clipboard is unchanged and the one event of the workflow is the
\* extraction error with the failure message.
C15_CodingTouchesOnlyClipboard ==
    [][/\ last'.op = "processCoding" =>
             /\ last'.sent = <<>>
             /\ UNCHANGED <<problemInfo, view, hasDebugged, clipboard,
                            currentProcessingAbortController,
                            currentExtraProcessingAbortController>>
       /\ \A i \in 1..Len(calls) :
             SettleStep(i, {"coding"}) =>
                /\ UNCHANGED <<problemInfo, view, hasDebugged,
                               currentProcessingAbortController,
                               currentExtraProcessingAbortController>>
                /\ calls[i].events = <<>>
                /\ IF ~last'.outcome.ok
                   THEN /\ clipboard' = clipboard
                        /\ last'.sent = <<Ev("INITIAL_SOLUTION_ERROR",
                                             ErrMsg(last'.outcome.message))>>
                        /\ calls'[i].pc = "done"
                   ELSE IF calls[i].pc = "takeScreenshot"
                   THEN /\ clipboard' = clipboard
                        /\ last'.sent = <<>>
                        /\ calls'[i].pc = "analyzeImageCoding"
                   ELSE /\ Cleaned(last'.outcome.text, clipboard')
                        /\ last'.outcome.text = <<FenceCpp, "\n", "int main(){}", "\n", Fence>>
                              => clipboard' = <<"int main(){}">>
                        /\ last'.sent = <<Ev("SOLUTION_SUCCESS", SolutionCopied)>>
                        /\ calls'[i].pc = "done"]_vars

\* C15 witness: with a ProblemInfo committed, the coding analysis has just
\* resolved with the fenced text and the clipboard holds the bare line.
C15_Witness ==
    /\ last.op = "settle"
    /\ calls[last.id].kind = "coding"
    /\ last.sent = <<Ev("SOLUTION_SUCCESS", SolutionCopied)>>
    /\ last.outcome = Resolved(<<FenceCpp, "\n", "int main(){}", "\n", Fence>>)
    /\ clipboard = <<"int main(){}">>
    /\ problemInfo # Null
    /\ view = "queue"

\* C16 (as claimed): processScreenshots runs the extraction workflow exactly
\* when the view is queue and starts the debug workflow only when the view is
\* debug.
C16_DebugOnlyInDebugView ==
    [][(last'.op = "processScreenshots" /\ last'.sent # <<>>) =>
          /\ (last'.id # 0 /\ calls'[last'.id].kind \in {"audio", "image"}) <=> 
                (view = "queue" /\ Len(screenshotQueue) # 0)
          /\ "DEBUG_START" \in Names(last'.sent) => view = "debug"]_vars

\* C16 (amended): processScreenshots runs the extraction workflow exactly when
\* the view is queue and the debug workflow in every other view: in the
\* solutions view, as in the debug view, it reads the secondary queue and, when
\* that is not empty, sends DebugStart and opens the secondary slot.
C16_DebugInEveryOtherView ==
    [][(last'.op = "processScreenshots" /\ last'.sent # <<>>) =>
          /\ (last'.id # 0 /\ calls'[last'.id].kind \in {"audio", "image"}) <=> 
                (view = "queue" /\ Len(screenshotQueue) # 0)
          /\ "DEBUG_START" \in Names(last'.sent) <=>
                (view # "queue" /\ Len(extraScreenshotQueue) # 0)
          /\ "DEBUG_START" \in Names(last'.sent) =>
                /\ last'.id # 0
                /\ calls'[last'.id].kind = "debug"
                /\ problemInfo # Null =>
                      /\ calls'[last'.id].pc = "generateSolution"
                      /\ currentExtraProcessingAbortController' = last'.id
                /\ UNCHANGED <<view, problemInfo, currentProcessingAbortController>>]_vars

\* C16 witness: an image extraction has ended and left the view at solutions,
\* and a further processScreenshots has started the debug workflow there.
C16_Witness ==
    /\ last.op = "processScreenshots"
    /\ view = "solutions"
    /\ Len(calls) = 2
    /\ calls[1].kind = "image" /\ calls[1].pc = "done"
    /\ calls[2].kind = "debug" /\ calls[2].pc = "generateSolution"
    /\ currentExtraProcessingAbortController = 2
    /\ last.sent = <<Ev("DEBUG_START", NoPayload)>>

ExtractionKinds == {"audio", "image", "mcq"}

\* C18: an audio, image or MCQ workflow in flight has sent Started and nothing
\* else; when its call settles it ends with one more event, ProblemExtracted
\* when the call resolved and the extraction error when it was rejected, and
\* it writes ProblemInfo in the first case only.
C18_OneTerminalEvent ==
    [][\A i \in 1..Len(calls) :
          SettleStep(i, ExtractionKinds) =>
             /\ calls[i].events = <<Ev("INITIAL_START", NoPayload)>>
             /\ Len(last'.sent) = 1
             /\ calls'[i].pc = "done"
             /\ IF last'.outcome.ok
                THEN /\ last'.sent[1].name = "PROBLEM_EXTRACTED"
                     /\ problemInfo' # Null
                     /\ problemInfo'.problem_statement = last'.outcome.text
                ELSE /\ last'.sent[1].name = "INITIAL_SOLUTION_ERROR"
                     /\ problemInfo' = problemInfo]_vars

\* C18 witness: an audio analysis has just been rejected after an MCQ
\* extraction had committed; the one terminal event is the extraction error.
C18_Witness ==
    /\ last.op = "settle"
    /\ calls[last.id].kind = "audio"
    /\ ~last.outcome.ok
    /\ last.sent = <<Ev("INITIAL_SOLUTION_ERROR", ErrMsg("timeout"))>>
    /\ problemInfo = McqProblemInfo("B")

\* C19: HasDebugged turns from false to true only in the step in which the
\* debugSolutionWithImages call of a debug workflow resolves (its
\* generateSolution call has resolved before), and that step sends
\* DebugSuccess; a debug workflow one of whose calls is rejected sends
\* DebugError with the message and leaves HasDebugged as it is; no step of an
\* extraction, MCQ or coding workflow changes HasDebugged.
C19_HasDebuggedOnlyByDebug ==
    [][/\ (~hasDebugged /\ hasDebugged') =>
             \E i \in 1..Len(calls) :
                /\ SettleStep(i, {"debug"})
                /\ calls[i].pc = "debugSolutionWithImages"
                /\ last'.outcome.ok
                /\ Len(last'.sent) = 1
                /\ last'.sent[1].name = "DEBUG_SUCCESS"
                /\ calls'[i].pc = "done"
       /\ \A i \in 1..Len(calls) :
             /\ (SettleStep(i, {"debug"}) /\ calls[i].pc = "debugSolutionWithImages"
                 /\ last'.outcome.ok) => hasDebugged'
             /\ (SettleStep(i, {"debug"}) /\ ~last'.outcome.ok) =>
                   /\ last'.sent = <<Ev("DEBUG_ERROR", ErrMsg(last'.outcome.message))>>
                   /\ hasDebugged' = hasDebugged
             /\ SettleStep(i, {"audio", "image", "mcq", "coding"}) =>
                   hasDebugged' = hasDebugged
       /\ last'.op \in {"processScreenshots", "processMcq", "processCoding"} =>
             hasDebugged' = hasDebugged]_vars

\* C19 witness: the debug pass of a debug workflow has just resolved and
\* HasDebugged is true.
C19_Witness ==
    /\ last.op = "settle"
    /\ calls[last.id].kind = "debug"
    /\ last.outcome.ok
    /\ last.sent = <<Ev("DEBUG_SUCCESS", LlmResult("B"))>>
    /\ hasDebugged

\* C17: when every pending call eventually settles, a primary slot that holds
\* a token is eventually empty, and so is a secondary slot, whatever workflows
\* are started and whenever cancelOngoingRequests is called.
C17_SlotsReturnToIdle ==
    /\ (currentProcessingAbortController # NoSlot)
          ~> (currentProcessingAbortController = NoSlot)
    /\ (currentExtraProcessingAbortController # NoSlot)
          ~> (currentExtraProcessingAbortController = NoSlot)

\* C17 witness: an image workflow whose token an MCQ workflow had replaced in
\* the primary slot has just ended and emptied the slot, the MCQ workflow
\* still being in flight.
C17_Witness ==
    /\ last.op = "settle"
    /\ last.id = 1
    /\ Len(calls) = 2
    /\ calls[1].kind = "image"
    /\ calls[2].kind = "mcq" /\ InFlight(2)
    /\ aborts[2] = 0
    /\ currentProcessingAbortController = NoSlot

----------------------------------------------------------------------------
(* Properties of the dispatch and of the startup, under SpecDispatch and SpecStartup *)

\* C11: no error reaches the OS dispatch layer: an exception thrown by a bound
\* callback is caught and logged by the wrapper and does not leave it, every
\* promise a callback returned has the wrapper's rejection handler attached,
\* and its rejection, whatever raised it, is logged and is no unhandled
\* rejection; this for the callback of every action of the startup table.
C11_NoErrorReachesHost ==
    /\ hostErrors = {}
    /\ \A p \in promises : p.catches
    /\ lastKey.op = "keyEvent" =>
          /\ ~lastKey.res.propagates
          /\ lastKey.behaviour = "throws" => lastKey.res.logged
    /\ (lastKey.op = "promiseSettles" /\ lastKey.rejected) => lastKey.logged

\* C11 witness: the promise of the Process Screenshots callback has just been
\* rejected and logged while the promise of another callback is pending.
C11_Witness ==
    /\ lastKey.op = "promiseSettles"
    /\ lastKey.callback = "Process Screenshots"
    /\ lastKey.rejected
    /\ lastKey.logged
    /\ promises # {}
    /\ hostErrors = {}

Holders(b, a) == {x.callback : x \in {y \in b : y.accelerator = a}}
Held(b, cb) == {x.accelerator : x \in {y \in b : y.callback = cb}}

\* C20: after registerGlobalShortcuts, whatever accelerators other
\* registrants held, no call of the startup table has removed or replaced a
\* binding of another action, every accelerator this application holds is
\* bound to the callback of one action, and every action holds at most one
\* accelerator, one of its own candidates.
C20_StartupKeepsBindingsApart ==
    lastReg.op = "registerGlobalShortcuts" =>
        LET trace == lastReg.res.trace
        IN  /\ Len(trace) = Len(StartupTable) + 1
            /\ \A k \in 1..Len(StartupTable) :
                  {x \in trace[k] : x.callback # StartupTable[k].description}
                      \subseteq trace[k + 1]
            /\ bound = trace[Len(trace)]
            /\ \A x \in bound : Cardinality(Holders(bound, x.accelerator)) = 1
            /\ \A k \in 1..Len(StartupTable) :
                  LET e == StartupTable[k]
                  IN  /\ Cardinality(Held(bound, e.description)) <= 1
                      /\ \A a \in Held(bound, e.description) :
                            \E j \in 1..Len(e.candidates) : e.candidates[j] = a

\* C20 witness: the primaries of Show/Center Window and of Toggle Window and
\* the first fallback of Toggle Window were held elsewhere; each of the twelve
\* actions holds one accelerator, these two a fallback.
C20_Witness ==
    /\ lastReg.op = "registerGlobalShortcuts"
    /\ heldElsewhere = {"CommandOrControl+Shift+Space", "CommandOrControl+B",
                        "CommandOrControl+Shift+B"}
    /\ Held(bound, "Show/Center Window") = {"CommandOrControl+Shift+S"}
    /\ Held(bound, "Toggle Window") = {"Alt+Shift+B"}
    /\ Cardinality(bound) = 12

\* The binding table agrees with the OS on every recorded accelerator.
TableAgreesWithOS ==
    \A a \in DOMAIN registeredShortcuts :
        registeredShortcuts[a] = TRUE <=> isRegistered(bound, a)

\* C21: before the teardown, after every registration call, the binding table
\* holds true for a recorded accelerator exactly when this application holds
\* it in the OS table; every line verifyShortcuts logs has Expected equal to
\* Actual; and verifyShortcuts changes neither the table nor a registration.
C21_TableAgreesWithOS ==
    [][/\ ~quit' => TableAgreesWithOS'
       /\ lastReg'.op = "verifyShortcuts" =>
             /\ \A l \in lastReg'.lines : l.expected = l.actual
             /\ UNCHANGED <<registeredShortcuts, bound, heldElsewhere>>]_vars

\* C21 witness: verifyShortcuts has just logged a line for every recorded
\* accelerator, one recorded as registered and one, held by another
\* registrant, recorded as failed.
C21_Witness ==
    /\ lastReg.op = "verifyShortcuts"
    /\ ~lastReg.threw
    /\ ~quit
    /\ \E l \in lastReg.lines : l.expected = TRUE /\ l.actual = TRUE
    /\ \E l \in lastReg.lines :
          l.expected = FALSE /\ l.actual = FALSE /\ l.accelerator \in heldElsewhere

====
